---- MODULE Spec2Model ----
(***************************************************************************)
(* Lineup assignment engine of src/src/optimize.py (optimize_lineup) and  *)
(* the table app.py hands to it.                                          *)
(*                                                                         *)
(* Numbers: pred_points and uncert are whole numbers; a missing value     *)
(* (None / NaN) is the empty tuple NaN and a present value v is <<v>>.    *)
(* Risk-adjusted scores are kept in hundredths of a point, so that the    *)
(* 0.15 of line 51 is the exact integer 15.                               *)
(***************************************************************************)
EXTENDS Integers, Sequences, FiniteSets, TLC

VARIABLES
  \* optimize_lineup: the caller's table, the locals and the outcome of a call
  pc, pred_df, df, elig_map, status, ones, starters, bench, error,
  \* a second call of optimize_lineup running beside the first (app.py 226, 274)
  other,
  \* _fetch_matchups_http: position, index into urls, the response r, last_err,
  \* the requests the session has sent, and what the call returned or raised
  fpc, url_i, resp, last_err, requests, fetched,
  \* scrape_season: position, index into weeks, the files under OUT_DIR,
  \* frames, what was printed, and the returned table
  spc, week_i, files, frames, log, season_df

lineupVars == <<pc, pred_df, df, elig_map, status, ones, starters, bench, error>>

fetchVars == <<fpc, url_i, resp, last_err, requests, fetched>>

scrapeVars == <<spc, week_i, files, frames, log, season_df>>

vars == <<lineupVars, other, fetchVars, scrapeVars>>

(***************************************************************************)
(* Bounds of the model.                                                    *)
(***************************************************************************)
\* at most this many players of PlayerPool are missing from the table
MaxDrop == 2
\* after an infeasible solve at most this many variables are left at 1
MaxOnes == 1
\* scrape_season is asked for the weeks 1..MaxWeeks
MaxWeeks == 3

(***************************************************************************)
(* Values.                                                                 *)
(***************************************************************************)
NaN == <<>>

isna(v) == v = NaN

\* pd.to_numeric(..., errors="coerce").fillna(d)
fillna(v, d) == IF isna(v) THEN d ELSE v[1]

DefaultPoints == 0
DefaultUncert == 3
RiskAversion == 15

(***************************************************************************)
(* The player pool the caller selects rows from: one row per index label. *)
(* Position "" is what fetch_player_pool gives a player whose position id *)
(* is unknown. A projection may be missing, and it may be negative.       *)
(***************************************************************************)
P(pos, pts, unc) == [pos |-> pos, pred_points |-> pts, uncert |-> unc]

PlayerPool ==
  << P("QB",   <<20>>, <<20>>),
     P("RB",   <<15>>, <<2>>),
     P("WR",   <<14>>, <<10>>),
     P("TE",   <<9>>,  <<2>>),
     P("RB",   <<12>>, <<2>>),
     P("WR",   <<13>>, <<2>>),
     P("K",    NaN,    <<2>>),
     P("DST",  <<-1>>, <<3>>),
     P("RB",   NaN,    <<2>>),
     P("WR",   <<13>>, NaN),
     P("QB",   <<18>>, <<1>>),
     P("",     <<25>>, <<1>>),
     P("DEF",  <<8>>,  <<3>>),
     P("qb",   <<30>>, <<1>>) >>

\* player_name of each row of the pool; the entry written qb came without a name
PlayerNames ==
  << "Allen", "Barkley", "Chase", "Kelce", "Cook", "Diggs", "Tucker", "Jets",
     "Ekeler", "Evans", "Fields", "Gray", "Bears", "" >>

\* player_id is pd.to_numeric(info.get("id"), errors="coerce"): missing when
\* the entry has no id
PlayerId(i) == IF PlayerNames[i] = "" THEN NaN ELSE <<i>>

Row(i) ==
  [idx |-> i, player_id |-> PlayerId(i), player_name |-> PlayerNames[i]]
    @@ PlayerPool[i]

RECURSIVE RowsOf(_, _)
\* the rows of the pool whose label is in keep, in pool order
RowsOf(i, keep) ==
  IF i > Len(PlayerPool) THEN <<>>
  ELSE (IF i \in keep THEN <<Row(i)>> ELSE <<>>) \o RowsOf(i + 1, keep)

Tables ==
  { RowsOf(1, (1..Len(PlayerPool)) \ dropped) :
      dropped \in { d \in SUBSET (1..Len(PlayerPool)) : Cardinality(d) <= MaxDrop } }

\* the columns of a table
Columns(t) == DOMAIN t[1]

\* the table t without its column c
WithoutColumn(t, c) ==
  [n \in 1..Len(t) |-> [f \in DOMAIN t[n] \ {c} |-> t[n][f]]]

\* what optimize_lineup may be handed: a table with both score columns, or
\* one that lacks pred_points or uncert (the df.get defaults of lines 31-32)
\* a table of four candidates only: a quarterback, two running backs and a
\* receiver, every value present
SmallPool ==
  << [idx |-> 1, player_id |-> <<1>>, player_name |-> "A"] @@ P("QB", <<10>>, <<2>>),
     [idx |-> 2, player_id |-> <<2>>, player_name |-> "B"] @@ P("RB", <<8>>, <<1>>),
     [idx |-> 3, player_id |-> <<3>>, player_name |-> "C"] @@ P("RB", <<6>>, <<1>>),
     [idx |-> 4, player_id |-> <<4>>, player_name |-> "D"] @@ P("WR", <<9>>, <<3>>) >>

Inputs ==
  Tables \cup { WithoutColumn(t, c) : t \in Tables, c \in {"pred_points", "uncert"} }
         \cup { SmallPool }

(***************************************************************************)
(* Helpers on tables (sequences of rows).                                  *)
(***************************************************************************)
Range(seq) == { seq[n] : n \in 1..Len(seq) }

Index(t) == { r.idx : r \in Range(t) }

At(t, i) == CHOOSE r \in Range(t) : r.idx = i

RECURSIVE SumOver(_, _)
SumOver(S, f) ==
  IF S = {} THEN 0
  ELSE LET x == CHOOSE x \in S : TRUE IN f[x] + SumOver(S \ {x}, f)

(***************************************************************************)
(* optimize.py                                                             *)
(***************************************************************************)
SLOTS ==
  << <<"QB", 1>>, <<"RB", 2>>, <<"WR", 2>>, <<"TE", 1>>,
     <<"FLEX", 1>>, <<"D/ST", 1>>, <<"K", 1>> >>

SlotNames == { SLOTS[n][1] : n \in 1..Len(SLOTS) }

SlotCount(s) == (CHOOSE e \in Range(SLOTS) : e[1] = s)[2]

FLEX_ELIGIBLE == {"RB", "WR", "TE"}

\* as _eligible_slots, with the quarterback let into the FLEX slot
eligible_slots_superflex(pos) ==
  IF pos = "QB" THEN {"QB", "FLEX"}
  ELSE IF pos = "RB" THEN {"RB", "FLEX"}
  ELSE IF pos = "WR" THEN {"WR", "FLEX"}
  ELSE IF pos = "TE" THEN {"TE", "FLEX"}
  ELSE IF pos \in {"D/ST", "DST", "DEF"} THEN {"D/ST"}
  ELSE IF pos = "K" THEN {"K"}
  ELSE {}

\* as _eligible_slots, with a position it does not know defaulted to FLEX
eligible_slots_default_flex(pos) ==
  IF pos = "QB" THEN {"QB"}
  ELSE IF pos = "RB" THEN {"RB", "FLEX"}
  ELSE IF pos = "WR" THEN {"WR", "FLEX"}
  ELSE IF pos = "TE" THEN {"TE", "FLEX"}
  ELSE IF pos \in {"D/ST", "DST", "DEF"} THEN {"D/ST"}
  ELSE IF pos = "K" THEN {"K"}
  ELSE {"FLEX"}

\* as _eligible_slots, comparing the position without regard to case
eligible_slots_anycase(pos) ==
  IF pos \in {"QB", "qb"} THEN {"QB"}
  ELSE IF pos \in {"RB", "rb"} THEN {"RB", "FLEX"}
  ELSE IF pos \in {"WR", "wr"} THEN {"WR", "FLEX"}
  ELSE IF pos \in {"TE", "te"} THEN {"TE", "FLEX"}
  ELSE IF pos \in {"D/ST", "DST", "DEF", "dst", "def"} THEN {"D/ST"}
  ELSE IF pos \in {"K", "k"} THEN {"K"}
  ELSE {}

\* as _eligible_slots, without the synonyms of D/ST
eligible_slots_no_synonyms(pos) ==
  IF pos = "QB" THEN {"QB"}
  ELSE IF pos = "RB" THEN {"RB", "FLEX"}
  ELSE IF pos = "WR" THEN {"WR", "FLEX"}
  ELSE IF pos = "TE" THEN {"TE", "FLEX"}
  ELSE IF pos = "D/ST" THEN {"D/ST"}
  ELSE IF pos = "K" THEN {"K"}
  ELSE {}

_eligible_slots(pos) ==
  IF pos = "QB" THEN {"QB"}
  ELSE IF pos = "RB" THEN {"RB", "FLEX"}
  ELSE IF pos = "WR" THEN {"WR", "FLEX"}
  ELSE IF pos = "TE" THEN {"TE", "FLEX"}
  ELSE IF pos \in {"D/ST", "DST", "DEF"} THEN {"D/ST"}
  ELSE IF pos = "K" THEN {"K"}
  ELSE {}

\* as replace_pos, with DEF forgotten
replace_pos_dst_only(pos) == IF pos = "DST" THEN "D/ST" ELSE pos

\* as replace_pos, with the synonyms chained instead of mapped to D/ST
replace_pos_chained(pos) ==
  IF pos = "DST" THEN "DEF" ELSE IF pos = "DEF" THEN "D/ST" ELSE pos

\* df["pos"].replace({"DST": "D/ST", "DEF": "D/ST"})
replace_pos(pos) == IF pos \in {"DST", "DEF"} THEN "D/ST" ELSE pos

\* as SafetyFills, with a missing uncert filled with 0
SafetyFillsUncertZero(r) ==
  [r EXCEPT !.pos = replace_pos(r.pos),
            !.pred_points = <<fillna(r.pred_points, DefaultPoints)>>,
            !.uncert = <<fillna(r.uncert, 0)>>]

\* lines 31-33 on one row
SafetyFills(r) ==
  [r EXCEPT !.pos = replace_pos(r.pos),
            !.pred_points = <<fillna(r.pred_points, DefaultPoints)>>,
            !.uncert = <<fillna(r.uncert, DefaultUncert)>>]

\* as adj, with the uncertainty penalty left out
adj_no_penalty(r) == 100 * r.pred_points[1]

\* line 51, in hundredths of a point
adj(r) == 100 * r.pred_points[1] - RiskAversion * r.uncert[1]

\* the keys of y: one variable per player and eligible slot
YKeys(em) == UNION { { <<i, s>> : s \in em[i] } : i \in DOMAIN em }

\* line 52: the objective of the valuation whose variables at 1 are A
Objective(A, t) == SumOver(A, [k \in A |-> adj(At(t, k[1]))])

\* as FillConstraint, with every slot filled once whatever its count
FillExactlyOne(A, s) == Cardinality({ k \in A : k[2] = s }) = 1

\* lines 55-57: fill_s
FillConstraint(A, s) == Cardinality({ k \in A : k[2] = s }) = SlotCount(s)

\* as OneSlotConstraint, with the bound 2 in place of 1
OneSlotAtMostTwo(A, i) == Cardinality({ k \in A : k[1] = i }) <= 2

\* lines 60-61: one_slot_i
OneSlotConstraint(A, i) == Cardinality({ k \in A : k[1] = i }) <= 1

RECURSIVE Fillings(_, _, _)
\* the valuations over keys that meet fill_s for the slots SLOTS[n..] and
\* one_slot_i for every player, each extending a valuation of partials
Fillings(n, keys, partials) ==
  IF n > Len(SLOTS) THEN partials
  ELSE LET s == SLOTS[n][1]
           forS == { k \in keys : k[2] = s }
           picks == { T \in SUBSET forS : FillConstraint(T, s) }
       IN Fillings(n + 1, keys,
            UNION { { p \cup T : T \in { T \in picks :
                        \A k \in T : OneSlotConstraint(p \cup T, k[1]) } }
                    : p \in partials })

\* every valuation of y that meets all constraints of the problem
FeasibleValuations(em) == Fillings(1, YKeys(em), {{}})

\* as OptimalValuations, with any feasible valuation taken for an optimum
AnyFeasibleValuation(em, t) == FeasibleValuations(em)

\* what CBC returns on a feasible problem: the optima
OptimalValuations(em, t) ==
  LET F == FeasibleValuations(em)
      obj == [A \in F |-> Objective(A, t)]
  IN { A \in F : \A B \in F : obj[B] <= obj[A] }

RECURSIVE UpTo(_, _)
\* the subsets of S of at most n elements
UpTo(S, n) ==
  IF n = 0 THEN {{}}
  ELSE LET prev == UpTo(S, n - 1)
       IN prev \cup { A \cup {k} : A \in prev, k \in S }

NoError == [kind |-> "none"]

KeyError(key) == [kind |-> "KeyError", key |-> key]

\* df.get(column, default) gives the bare default when the column is absent;
\* pd.to_numeric hands a scalar back as a scalar, which has no fillna
AttributeError(attr) == [kind |-> "AttributeError", attr |-> attr]

\* Python's None
None == [kind |-> "None"]

\* no second call of optimize_lineup is under way
NoOtherCall == other = [pc |-> "idle"]

\* _fetch_matchups_http is not running
NoFetch ==
  /\ fpc = "idle" /\ url_i = 0 /\ resp = None /\ last_err = None
  /\ requests = <<>> /\ fetched = None

\* scrape_season is not running
NoScrape ==
  /\ spc = "idle" /\ week_i = 0 /\ files = <<>> /\ frames = <<>>
  /\ log = <<>> /\ season_df = None

\* the locals of a call of optimize_lineup at line 27
Called ==
  /\ pc = "start"
  /\ df = <<>>
  /\ elig_map = <<>>
  /\ status = "NotSolved"
  /\ ones = {}
  /\ starters = <<>>
  /\ bench = <<>>
  /\ error = NoError

Init ==
  /\ pred_df \in Inputs
  /\ Called
  /\ NoOtherCall /\ NoFetch /\ NoScrape

\* lines 31-33 on the whole table
Filled(t) == [n \in 1..Len(t) |-> SafetyFills(t[n])]

\* line 36
EligibilityOf(d) == [i \in Index(d) |-> _eligible_slots(At(d, i).pos)]

\* line 39
ValidIdx(all) == { i \in DOMAIN all : all[i] # {} }

\* as Normalize, with line 28 an alias of the caller's table and not a copy
NormalizeInPlace ==
  /\ pc = "start"
  /\ IF {"pred_points", "uncert"} \subseteq Columns(pred_df)
     THEN /\ df' = Filled(pred_df)
          /\ pred_df' = Filled(pred_df)
          /\ pc' = "normalized"
          /\ UNCHANGED error
     ELSE /\ error' = AttributeError("fillna")
          /\ pc' = "raised"
          /\ UNCHANGED <<df, pred_df>>
  /\ UNCHANGED <<elig_map, status, ones, starters, bench>>
  /\ UNCHANGED <<other, fetchVars, scrapeVars>>

\* lines 28-33
Normalize ==
  /\ pc = "start"
  /\ IF {"pred_points", "uncert"} \subseteq Columns(pred_df)
     THEN /\ df' = Filled(pred_df)
          /\ pc' = "normalized"
          /\ UNCHANGED error
     ELSE /\ error' = AttributeError("fillna")
          /\ pc' = "raised"
          /\ UNCHANGED df
  /\ UNCHANGED <<pred_df, elig_map, status, ones, starters, bench>>
  /\ UNCHANGED <<other, fetchVars, scrapeVars>>

\* lines 36-41: the eligibility map, and the rows without a slot pruned
Prune ==
  /\ pc = "normalized"
  /\ LET all == EligibilityOf(df)
         valid_idx == ValidIdx(all)
     IN /\ df' = SelectSeq(df, LAMBDA r : r.idx \in valid_idx)
        /\ elig_map' = [i \in valid_idx |-> all[i]]
  /\ pc' = "pruned"
  /\ UNCHANGED <<pred_df, status, ones, starters, bench, error>>
  /\ UNCHANGED <<other, fetchVars, scrapeVars>>

\* lines 43-63: the problem is built and solved. The status is never read by
\* the caller. On a feasible problem the values are those of an optimum; on
\* an infeasible one the values CBC leaves behind are read back all the same
\* and nothing constrains which of them equal 1.
Solve ==
  /\ pc = "pruned"
  /\ IF FeasibleValuations(elig_map) # {}
     THEN /\ status' = "Optimal"
          /\ ones' \in OptimalValuations(elig_map, df)
     ELSE /\ status' = "Infeasible"
          /\ ones' \in UpTo(YKeys(elig_map), MaxOnes)
  /\ pc' = "solved"
  /\ UNCHANGED <<pred_df, df, elig_map, starters, bench, error>>
  /\ UNCHANGED <<other, fetchVars, scrapeVars>>

\* line 75-76
order == <<"QB", "RB", "RB", "WR", "WR", "TE", "FLEX", "D/ST", "K">>

slot_order(x) ==
  IF \E n \in 1..Len(order) : order[n] = x
  THEN (CHOOSE n \in 1..Len(order) :
          order[n] = x /\ \A m \in 1..(n - 1) : order[m] # x) - 1
  ELSE 999

\* as Assigned, with the player's own position for the slot label
AssignedNativePos(k, t) == [slot |-> At(t, k[1]).pos] @@ At(t, k[1])

\* lines 67-71: the row of player k[1] with the slot k[2]
Assigned(k, t) == [slot |-> k[2]] @@ At(t, k[1])

\* as StartsBefore, with pred_points ascending
StartsBeforeAscending(a, b) ==
  \/ slot_order(a.slot) < slot_order(b.slot)
  \/ /\ slot_order(a.slot) = slot_order(b.slot)
     /\ \/ a.pred_points[1] < b.pred_points[1]
        \/ a.pred_points[1] = b.pred_points[1] /\ a.idx < b.idx

\* line 77: slot_order ascending, then pred_points descending; the sort is
\* stable and the rows arrive in index order
StartsBefore(a, b) ==
  \/ slot_order(a.slot) < slot_order(b.slot)
  \/ /\ slot_order(a.slot) = slot_order(b.slot)
     /\ \/ a.pred_points[1] > b.pred_points[1]
        \/ a.pred_points[1] = b.pred_points[1] /\ a.idx < b.idx

RECURSIVE SortStarters(_)
SortStarters(S) ==
  IF S = {} THEN <<>>
  ELSE LET first == CHOOSE a \in S : \A b \in S \ {a} : StartsBefore(a, b)
       IN <<first>> \o SortStarters(S \ {first})

\* lines 66-78: the rows of the variables at 1, in presentation order
StartersOf(A, t) == SortStarters({ Assigned(k, t) : k \in A })

\* lines 65-78: with no variable at 1 the frame is empty, has no "slot"
\* column, and line 76 raises KeyError
Extract ==
  /\ pc = "solved"
  /\ IF ones = {}
     THEN /\ error' = KeyError("slot")
          /\ pc' = "raised"
          /\ UNCHANGED starters
     ELSE /\ starters' = StartersOf(ones, df)
          /\ pc' = "extracted"
          /\ UNCHANGED error
  /\ UNCHANGED <<pred_df, df, elig_map, status, ones, bench>>
  /\ UNCHANGED <<other, fetchVars, scrapeVars>>

\* line 83: pred_points descending, missing values last
BenchBefore(a, b) ==
  /\ ~isna(a.pred_points)
  /\ isna(b.pred_points) \/ a.pred_points[1] > b.pred_points[1]

RECURSIVE SortedBenches(_)
\* every order of the rows S that sort_values may give: rows of equal
\* pred_points come in an order the sort does not fix
SortedBenches(S) ==
  IF S = {} THEN {<<>>}
  ELSE UNION { { <<a>> \o rest : rest \in SortedBenches(S \ {a}) }
               : a \in { a \in S : \A b \in S : ~BenchBefore(b, a) } }

\* as BenchRows, with the started rows left in
BenchEveryone(t, started_idx) == Range(t)

\* line 82: the rows of the caller's table whose label did not start
BenchRows(t, started_idx) == { r \in Range(t) : r.idx \notin started_idx }

\* lines 80-85
Assemble ==
  /\ pc = "extracted"
  /\ bench' \in SortedBenches(BenchRows(pred_df, Index(starters)))
  /\ pc' = "returned"
  /\ UNCHANGED <<pred_df, df, elig_map, status, ones, starters, error>>
  /\ UNCHANGED <<other, fetchVars, scrapeVars>>

\* line 85
ReturnValue == <<starters, bench>>

Next == Normalize \/ Prune \/ Solve \/ Extract \/ Assemble

Spec == Init /\ [][Next]_vars

(***************************************************************************)
(* Two calls of optimize_lineup side by side: app.py calls it for the      *)
(* user's table (line 226) and for the opponent's (line 274), and sessions *)
(* of the app run in threads of one process. Everything a call works on is *)
(* a local of its own frame; the module constants SLOTS and FLEX_ELIGIBLE  *)
(* are only read. The second call's frame is the record other, and its     *)
(* steps may fall anywhere between the steps of the first.                 *)
(***************************************************************************)
\* the frame of the first call as a record
ThisCall ==
  [pc |-> pc, pred_df |-> pred_df, df |-> df, elig_map |-> elig_map,
   status |-> status, ones |-> ones, starters |-> starters, bench |-> bench,
   error |-> error]

\* a frame at line 27, called with the table t
CallOf(t) ==
  [pc |-> "start", pred_df |-> t, df |-> <<>>, elig_map |-> <<>>,
   status |-> "NotSolved", ones |-> {}, starters |-> <<>>, bench |-> <<>>,
   error |-> NoError]

\* the frames one step of optimize_lineup can lead to from the frame c
CallSteps(c) ==
  CASE c.pc = "start" ->
         IF {"pred_points", "uncert"} \subseteq Columns(c.pred_df)
         THEN { [c EXCEPT !.df = Filled(c.pred_df), !.pc = "normalized"] }
         ELSE { [c EXCEPT !.error = AttributeError("fillna"), !.pc = "raised"] }
    [] c.pc = "normalized" ->
         LET all == EligibilityOf(c.df)
             valid_idx == ValidIdx(all)
         IN { [c EXCEPT !.df = SelectSeq(c.df, LAMBDA r : r.idx \in valid_idx),
                        !.elig_map = [i \in valid_idx |-> all[i]],
                        !.pc = "pruned"] }
    [] c.pc = "pruned" ->
         IF FeasibleValuations(c.elig_map) # {}
         THEN { [c EXCEPT !.status = "Optimal", !.ones = A, !.pc = "solved"] :
                  A \in OptimalValuations(c.elig_map, c.df) }
         ELSE { [c EXCEPT !.status = "Infeasible", !.ones = A, !.pc = "solved"] :
                  A \in UpTo(YKeys(c.elig_map), MaxOnes) }
    [] c.pc = "solved" ->
         IF c.ones = {}
         THEN { [c EXCEPT !.error = KeyError("slot"), !.pc = "raised"] }
         ELSE { [c EXCEPT !.starters = StartersOf(c.ones, c.df), !.pc = "extracted"] }
    [] c.pc = "extracted" ->
         { [c EXCEPT !.bench = b, !.pc = "returned"] :
             b \in SortedBenches(BenchRows(c.pred_df, Index(c.starters))) }
    [] OTHER -> {}

\* as OtherStep, with the bench frame of line 82 shared between the calls
OtherStepSharedBench ==
  /\ other.pc # "idle"
  /\ other' \in CallSteps(other)
  /\ bench' = other'.bench
  /\ UNCHANGED <<pc, pred_df, df, elig_map, status, ones, starters, error>>
  /\ UNCHANGED <<fetchVars, scrapeVars>>

\* one step of the second call
OtherStep ==
  /\ other.pc # "idle"
  /\ other' \in CallSteps(other)
  /\ UNCHANGED <<lineupVars, fetchVars, scrapeVars>>

\* the whole pool, with and without its uncert column: the table of app.py
\* line 226
UserTables ==
  LET pool == RowsOf(1, 1..Len(PlayerPool))
  IN {pool, WithoutColumn(pool, "uncert")}

\* the pool without the rows of unknown position, and without one defence:
\* the table of app.py lines 264-271
OpponentTables ==
  { RowsOf(1, (1..Len(PlayerPool)) \ d) : d \in {{12, 14}, {13}} }

InitCalls ==
  /\ pred_df \in UserTables
  /\ Called
  /\ other \in { CallOf(t) : t \in OpponentTables }
  /\ NoFetch /\ NoScrape

NextCalls == Normalize \/ Prune \/ Solve \/ Extract \/ Assemble \/ OtherStep

SpecCalls == InitCalls /\ [][NextCalls]_vars

(***************************************************************************)
(* roster.py: _fetch_matchups_http. The session's requests and the answers *)
(* of the network are the environment: every s.get either raises a         *)
(* RequestException or yields some response.                                *)
(***************************************************************************)
\* no call of optimize_lineup is under way
NoCall ==
  /\ pc = "idle" /\ pred_df = <<>> /\ df = <<>> /\ elig_map = <<>>
  /\ status = "NotSolved" /\ ones = {} /\ starters = <<>> /\ bench = <<>>
  /\ error = NoError

\* as urls, with the lm-api host tried first
urls_fallback_first ==
  << "https://lm-api-reads.fantasy.espn.com/apis/v3/games/ffl/leagues?view=mMatchupScore",
     "https://fantasy.espn.com/apis/v3/games/ffl/leagues?view=mMatchupScore" >>

\* lines 130-139
urls ==
  << "https://fantasy.espn.com/apis/v3/games/ffl/leagues?view=mMatchupScore",
     "https://lm-api-reads.fantasy.espn.com/apis/v3/games/ffl/leagues?view=mMatchupScore" >>

\* what a Location header may hold: nothing (""), a page of the site, the
\* lm-api address of the same resource, another site, a relative path
Locations ==
  {"", "https://fantasy.espn.com/fantasy/", urls[2],
   "https://example.org/espn", "/espn.com/login"}

\* loc.startswith("http")
startswith_http(loc) ==
  loc \in {"https://fantasy.espn.com/fantasy/", urls[2], "https://example.org/espn"}

\* "espn.com" in loc
contains_espn_com(loc) ==
  loc \in {"https://fantasy.espn.com/fantasy/", urls[2], "/espn.com/login"}

\* a request the session sent: its target and the line that sent it
Request(target, line) == [target |-> target, line |-> line]

StatusCodes == {200, 302, 403, 500}

ContentTypes == {"application/json; charset=utf-8", "text/html"}

\* "application/json" in the Content-Type header
is_json_type(ct) == ct = "application/json; charset=utf-8"

\* the document the server holds for a target
Json(target) == [scoreboard |-> target]

\* the responses a request for target may get; body <<>> is a body that is
\* not JSON
Responses(target) ==
  [status : StatusCodes, location : Locations, content_type : ContentTypes,
   body : {<<Json(target)>>, <<>>}]

\* Response.is_redirect: a Location header and a redirect status
is_redirect(r) == r.location # "" /\ r.status \in {301, 302, 303, 307, 308}

\* an exception raised while url was being tried
RequestError(kind, url) == [kind |-> kind, url |-> url]

InitFetch ==
  /\ fpc = "get" /\ url_i = 1 /\ resp = None /\ last_err = None
  /\ requests = <<>> /\ fetched = None
  /\ NoCall /\ NoOtherCall /\ NoScrape

\* lines 165-170: the handler keeps the exception and the loop goes on
Caught(e) ==
  /\ last_err' = e
  /\ url_i' = url_i + 1
  /\ fpc' = "get"
  /\ UNCHANGED fetched

\* lines 151-153: where the response r of line 149 leads
FollowsAsFar(r) ==
  IF is_redirect(r) /\ startswith_http(r.location) /\ contains_espn_com(r.location)
  THEN "redirect" ELSE "check"

\* line 149: the request for the url in turn
Get ==
  /\ fpc = "get" /\ url_i <= Len(urls)
  /\ requests' = Append(requests, Request(urls[url_i], 149))
  /\ \/ /\ Caught(RequestError("ConnectionError", urls[url_i]))
        /\ UNCHANGED resp
     \/ /\ \E r \in Responses(urls[url_i]) :
             /\ resp' = r
             /\ fpc' = FollowsAsFar(r)
        /\ UNCHANGED <<url_i, last_err, fetched>>
  /\ UNCHANGED <<lineupVars, other, scrapeVars>>

\* lines 151-154: the one redirect followed by hand
FollowRedirect ==
  /\ fpc = "redirect"
  /\ requests' = Append(requests, Request(resp.location, 154))
  /\ \/ /\ Caught(RequestError("ConnectionError", urls[url_i]))
        /\ UNCHANGED resp
     \/ /\ resp' \in Responses(resp.location)
        /\ fpc' = "check"
        /\ UNCHANGED <<url_i, last_err, fetched>>
  /\ UNCHANGED <<lineupVars, other, scrapeVars>>

\* lines 156-164: raise_for_status, then the body as JSON. A body that is not
\* JSON under a JSON content type makes r.json() raise: a RequestException
\* in requests from 2.27 on, a bare ValueError before, which no handler of
\* the loop catches.
Check ==
  /\ fpc = "check"
  /\ IF resp.status >= 400
     THEN Caught(RequestError("HTTPError", urls[url_i]))
     ELSE IF resp.body # <<>>
     THEN /\ fetched' = resp.body[1]
          /\ fpc' = "returned"
          /\ UNCHANGED <<url_i, last_err>>
     ELSE IF ~is_json_type(resp.content_type)
     THEN Caught(RequestError("HTTPError", urls[url_i]))
     ELSE \/ Caught(RequestError("JSONDecodeError", urls[url_i]))
          \/ /\ fetched' = RequestError("ValueError", urls[url_i])
             /\ fpc' = "raised"
             /\ UNCHANGED <<url_i, last_err>>
  /\ UNCHANGED <<resp, requests>>
  /\ UNCHANGED <<lineupVars, other, scrapeVars>>

\* lines 172-174: the loop is over
Raise ==
  /\ fpc = "get" /\ url_i > Len(urls)
  /\ fetched' = IF last_err # None THEN last_err
                ELSE [kind |-> "RuntimeError", url |-> ""]
  /\ fpc' = "raised"
  /\ UNCHANGED <<url_i, resp, last_err, requests>>
  /\ UNCHANGED <<lineupVars, other, scrapeVars>>

NextFetch == Get \/ FollowRedirect \/ Check \/ Raise

SpecFetch == InitFetch /\ [][NextFetch]_vars

(***************************************************************************)
(* tools/scrape.py: scrape_season. The files under OUT_DIR and the answers *)
(* of fetch_nfl_savant_weekly are the environment. A table is known by the *)
(* weeks it holds, where it came from and its number of rows.              *)
(***************************************************************************)
\* the weeks argument
weeks == [n \in 1..MaxWeeks |-> n]

\* line 119 and line 151: the names of the files
out_week(w) == <<"week", w>>

out_season == <<"season", 0>>

\* a file that does not exist, and one pd.read_csv cannot read
Absent == [kind |-> "absent"]

Unreadable == [kind |-> "unreadable"]

\* a table of rows rows for the weeks ws
Table(ws, from, rows) == [kind |-> "table", weeks |-> ws, from |-> from, rows |-> rows]

\* pd.DataFrame()
EmptyFrame == Table(<<>>, "empty", 0)

\* the numbers of rows a page or a cached file may hold
RowCounts == {0, 2}

\* as exists_and_readable, with the cache never looked at
cache_ignored(f) == FALSE

\* lines 120-127: the file exists and read_csv reads it
exists_and_readable(f) == f.kind = "table"

\* what was printed
Printed(w, msg) == [week |-> w, msg |-> msg]

RECURSIVE concat(_)
\* line 150: pd.concat(frames, ignore_index=True)
concat(fs) ==
  IF fs = <<>> THEN Table(<<>>, "concat", 0)
  ELSE LET rest == concat(Tail(fs))
       IN Table(Head(fs).weeks \o rest.weeks, "concat", Head(fs).rows + rest.rows)

InitScrape ==
  /\ spc = "loop" /\ week_i = 1
  /\ files \in [ { out_week(weeks[n]) : n \in 1..Len(weeks) } \cup {out_season} ->
                   {Absent, Unreadable} \cup
                     { Table(<<w>>, "cache", k) : w \in Range(weeks), k \in RowCounts }
                     \cup {Table(<<>>, "earlier run", 0)} ]
  /\ \A n \in 1..Len(weeks) :
       LET f == files[out_week(weeks[n])]
       IN f.kind = "table" => f.weeks = <<weeks[n]>>
  /\ files[out_season] \in {Absent, Table(<<>>, "earlier run", 0)}
  /\ frames = <<>> /\ log = <<>> /\ season_df = None
  /\ NoCall /\ NoOtherCall /\ NoFetch

\* lines 120-125: the week's file is read and the week is done
LoadCache ==
  /\ spc = "loop" /\ week_i <= Len(weeks)
  /\ LET w == weeks[week_i]
     IN /\ exists_and_readable(files[out_week(w)])
        /\ frames' = Append(frames, files[out_week(w)])
        /\ log' = Append(log, Printed(w, "[cache] loaded"))
  /\ week_i' = week_i + 1
  /\ UNCHANGED <<spc, files, season_df>>
  /\ UNCHANGED <<lineupVars, other, fetchVars>>

\* lines 129-144: the week is fetched; the page is written and kept, or an
\* exception of the fetch or of to_csv is printed and the week is left out.
\* A to_csv that fails may leave a file that cannot be read.
FetchWeek ==
  /\ spc = "loop" /\ week_i <= Len(weeks)
  /\ LET w == weeks[week_i]
         fetching == Append(log, Printed(w, "Fetching"))
     IN /\ ~exists_and_readable(files[out_week(w)])
        /\ \/ \E k \in RowCounts :
                LET dfw == Table(<<w>>, "fetch", k)
                IN \/ /\ files' = [files EXCEPT ![out_week(w)] = dfw]
                      /\ frames' = Append(frames, dfw)
                      /\ log' = fetching
                   \/ /\ files' \in { files, [files EXCEPT ![out_week(w)] = Unreadable] }
                      /\ log' = Append(fetching, Printed(w, "Unexpected error: OSError"))
                      /\ UNCHANGED frames
           \/ /\ log' \in { Append(fetching, Printed(w, m)) :
                              m \in {"HTTP error", "No valid stats table",
                                     "Unexpected error: ConnectionError"} }
              /\ UNCHANGED <<files, frames>>
  /\ week_i' = week_i + 1
  /\ UNCHANGED <<spc, season_df>>
  /\ UNCHANGED <<lineupVars, other, fetchVars>>

\* lines 146-154
Finish ==
  /\ spc = "loop" /\ week_i > Len(weeks)
  /\ IF frames = <<>>
     THEN /\ log' = Append(log, Printed(0, "WARNING: No data scraped"))
          /\ season_df' = EmptyFrame
          /\ UNCHANGED files
     ELSE /\ season_df' = concat(frames)
          /\ files' = [files EXCEPT ![out_season] = concat(frames)]
          /\ log' = Append(log, Printed(0, "Saved season CSV"))
  /\ spc' = "done"
  /\ UNCHANGED <<week_i, frames>>
  /\ UNCHANGED <<lineupVars, other, fetchVars>>

NextScrape == LoadCache \/ FetchWeek \/ Finish

SpecScrape == InitScrape /\ [][NextScrape]_vars

(***************************************************************************)
(* The contract the results are held against: the eligibility relation,   *)
(* the slot table and the scores as the specification states them.        *)
(***************************************************************************)
LineupSlots == <<"QB", "RB", "RB", "WR", "WR", "TE", "FLEX", "D/ST", "K">>

SlotTable == [s \in Range(LineupSlots) |->
                Cardinality({ n \in 1..Len(LineupSlots) : LineupSlots[n] = s })]

Normalized(pos) == IF pos = "DST" \/ pos = "DEF" THEN "D/ST" ELSE pos

EligibilitySet(pos) ==
  CASE pos = "QB" -> {"QB"}
    [] pos = "RB" -> {"RB", "FLEX"}
    [] pos = "WR" -> {"WR", "FLEX"}
    [] pos = "TE" -> {"TE", "FLEX"}
    [] pos = "K" -> {"K"}
    [] pos = "D/ST" -> {"D/ST"}
    [] OTHER -> {}

Eligible(r) == EligibilitySet(Normalized(r.pos))

Validated(t) == { r \in Range(t) : Eligible(r) # {} }

Excluded(t) == { r \in Range(t) : Eligible(r) = {} }

EligibleCount(t, s) == Cardinality({ r \in Range(t) : s \in Eligible(r) })

\* projected_points - 0.15 * uncertainty of an input row, in hundredths
Score(r) ==
  100 * (IF r.pred_points = <<>> THEN 0 ELSE r.pred_points[1])
  - 15 * (IF r.uncert = <<>> THEN 3 ELSE r.uncert[1])

RECURSIVE Place(_, _, _)
\* the ways to extend the assignments in partials by one eligible, unused
\* candidate of t for each of the slots LineupSlots[n..]
Place(n, t, partials) ==
  IF n > Len(LineupSlots) THEN partials
  ELSE Place(n + 1, t,
         UNION { { p \cup {<<r.idx, LineupSlots[n]>>} :
                     r \in { r \in Range(t) :
                               /\ LineupSlots[n] \in Eligible(r)
                               /\ \A k \in p : k[1] # r.idx } }
                 : p \in partials })

\* the legal full assignments of the table t, as sets of <<idx, slot>>
LegalAssignments(t) == Place(1, t, {{}})

Feasible(t) ==
  /\ \A s \in DOMAIN SlotTable : EligibleCount(t, s) >= SlotTable[s]
  /\ LegalAssignments(t) # {}

Total(A, t) == SumOver(A, [k \in A |-> Score(At(t, k[1]))])

Returned == pc = "returned"

Ended == pc \in {"returned", "raised"}

StartersWith(s) == { n \in 1..Len(starters) : starters[n].slot = s }

StartedIdx == { starters[n].idx : n \in 1..Len(starters) }

BenchIdx == { bench[n].idx : n \in 1..Len(bench) }

Times(seq, i) == Cardinality({ n \in 1..Len(seq) : seq[n].idx = i })

InfeasibleError(s, needs, has) ==
  [kind |-> "InfeasibleError", slot |-> s, needs |-> needs, has |-> has]

\* C1: on every table that admits a legal full assignment the starters hold,
\* for each slot category of the slot table, exactly its count of candidates
\* labelled with that slot, and no starter carries any other label.
C1_ExactFill ==
  (Returned /\ Feasible(pred_df)) =>
    /\ \A s \in DOMAIN SlotTable : Cardinality(StartersWith(s)) = SlotTable[s]
    /\ \A n \in 1..Len(starters) : starters[n].slot \in DOMAIN SlotTable

\* a feasible table was solved with candidates left over for the bench
C1_Witness ==
  /\ Returned /\ Feasible(pred_df)
  /\ Len(starters) = Len(LineupSlots)
  /\ \E r \in Validated(pred_df) : r.idx \notin StartedIdx

C3_Optimality ==
  (Returned /\ Feasible(pred_df)) =>
    LET got == SumOver(1..Len(starters),
                 [n \in 1..Len(starters) |->
                    100 * starters[n].pred_points[1] - 15 * starters[n].uncert[1]])
    IN \A B \in LegalAssignments(pred_df) : Total(B, pred_df) <= got

\* both quarterbacks are in the table and the one with fewer projected points
\* but the better risk-adjusted score starts
C3_Witness ==
  /\ Returned /\ Feasible(pred_df)
  /\ EligibleCount(pred_df, "QB") = 2
  /\ \E n \in 1..Len(starters), r \in Range(pred_df) :
       /\ starters[n].slot = "QB" /\ r.pos = "QB"
       /\ r.pred_points[1] > starters[n].pred_points[1]

\* C4: every starter's slot is in the eligibility set of its normalized
\* position; the FLEX starter is an RB, WR or TE.
C4_EligibilityRespected ==
  Returned =>
    \A n \in 1..Len(starters) :
      LET r == At(pred_df, starters[n].idx)
      IN /\ starters[n].slot \in Eligible(r)
         /\ starters[n].slot = "FLEX" => Normalized(r.pos) \in {"RB", "WR", "TE"}

\* a lineup with a FLEX starter and a defence given as DST was returned while
\* a second quarterback sat on the bench
C4_Witness ==
  /\ Returned
  /\ \E n \in 1..Len(starters) : starters[n].slot = "FLEX"
  /\ \E n \in 1..Len(starters) : At(pred_df, starters[n].idx).pos = "DST"
  /\ \E n \in 1..Len(bench) : bench[n].pos = "QB"

\* C5: when some slot category has fewer eligible candidates than its count,
\* the call ends in InfeasibleError and returns no starters and no bench.
C5_InfeasibleOnShortSlot ==
  (Ended /\ \E s \in DOMAIN SlotTable : EligibleCount(pred_df, s) < SlotTable[s]) =>
    /\ error.kind = "InfeasibleError"
    /\ starters = <<>> /\ bench = <<>>

\* C6: when every slot category alone has enough eligible candidates but no
\* legal full assignment exists, the call fails with the infeasibility error
\* and returns no lineup.
C6_InfeasibleOnSharedFlex ==
  (/\ Ended
   /\ \A s \in DOMAIN SlotTable : EligibleCount(pred_df, s) >= SlotTable[s]
   /\ ~Feasible(pred_df)) =>
    /\ pc = "raised" /\ error.kind = "InfeasibleError"
    /\ starters = <<>>

\* C7: with no candidate eligible for K the failure names slot K, needs 1,
\* has 0.
C7_ErrorNamesSlot ==
  (Ended /\ EligibleCount(pred_df, "K") = 0) =>
    error = InfeasibleError("K", SlotTable["K"], 0)

\* C8: |starters| + |bench| + |excluded| = |input| for every run.
C8_PartitionCompleteness ==
  Returned =>
    Len(starters) + Len(bench) + Cardinality(Excluded(pred_df)) = Len(pred_df)

\* C9: on a table that admits a legal full assignment every validated
\* candidate appears exactly once in starters and bench taken together.
C9_ValidatedExactlyOnce ==
  (Returned /\ Feasible(pred_df)) =>
    \A r \in Validated(pred_df) : Times(starters, r.idx) + Times(bench, r.idx) = 1

\* validated candidates are on both sides: nine start and some are benched
C9_Witness ==
  /\ Returned /\ Feasible(pred_df)
  /\ Cardinality(Validated(pred_df)) > Len(starters)
  /\ \E r \in Validated(pred_df) : Times(bench, r.idx) = 1
  /\ \E r \in Validated(pred_df) : Times(starters, r.idx) = 1

\* C10: a candidate with an empty eligibility set never appears in the bench.
C10_ExcludedNeverBenched ==
  Returned => \A n \in 1..Len(bench) : Eligible(bench[n]) # {}

(***************************************************************************)
(* Claims C11 to C20.                                                      *)
(***************************************************************************)
\* the rows of t whose position is recognized, in the order of t
Recognized(t) == SelectSeq(t, LAMBDA r : Eligible(r) # {})

\* the starters the code can return for the table t when the solve succeeds
LineupsFor(t) ==
  LET d == Filled(t)
      all == EligibilityOf(d)
      valid == ValidIdx(all)
      kept == SelectSeq(d, LAMBDA r : r.idx \in valid)
      em == [i \in valid |-> all[i]]
  IN { StartersOf(A, kept) : A \in OptimalValuations(em, kept) }

HasScoreColumns == {"pred_points", "uncert"} \subseteq Columns(pred_df)

Pruned == pc \in {"pruned", "solved", "extracted", "returned"}

\* first place of the slot s in the presentation order
Rank(s) == CHOOSE n \in 1..Len(LineupSlots) :
             LineupSlots[n] = s /\ \A m \in 1..(n - 1) : LineupSlots[m] # s

\* position codes that differ from a canonical code by case or whitespace
Miswritten == {"qb", "Rb", " WR", "dst", "te ", "k"}

\* C11: a candidate whose position is not recognized never starts, is not in
\* the eligibility map, does not make a call on a feasible table fail, and
\* the starters are among those the code gives for the table without it.
C11_UnrecognizedOutOfSolve ==
  /\ Pruned => \A r \in Excluded(pred_df) : r.idx \notin DOMAIN elig_map
  /\ Returned => \A r \in Excluded(pred_df) : r.idx \notin StartedIdx
  /\ (Ended /\ HasScoreColumns /\ Feasible(pred_df)) =>
       /\ Returned
       /\ starters \in LineupsFor(Recognized(pred_df))

\* a lineup was returned for a feasible table holding an unrecognized
\* candidate that has more points than any starter
C11_Witness ==
  /\ Returned /\ Feasible(pred_df)
  /\ \E r \in Excluded(pred_df) :
       \A n \in 1..Len(starters) : r.pred_points[1] > starters[n].pred_points[1]

\* C12: the returned value carries, beside starters and bench, a record of
\* the candidates excluded for an unrecognized position.
C12_ExclusionsReported ==
  Returned =>
    /\ Len(ReturnValue) = 3
    /\ ReturnValue[3] = { r.idx : r \in Excluded(pred_df) }

\* C14: when a candidate lacks both identifier and name the call ends in
\* ValidationError and returns neither starters nor bench.
C14_ValidationError ==
  (Ended /\ \E r \in Range(pred_df) : r.player_id = <<>> /\ r.player_name = "") =>
    /\ error.kind = "ValidationError"
    /\ starters = <<>> /\ bench = <<>>

\* C15: a candidate given as DST or DEF is eligible for the D/ST slot only
\* and, when it starts, holds that slot and is reported with position D/ST.
C15_SynonymsNormalized ==
  /\ Pruned =>
       \A r \in Range(pred_df) : r.pos \in {"DST", "DEF"} =>
         /\ r.idx \in DOMAIN elig_map /\ elig_map[r.idx] = {"D/ST"}
         /\ At(df, r.idx).pos = "D/ST"
  /\ Returned =>
       \A n \in 1..Len(starters) :
         At(pred_df, starters[n].idx).pos \in {"DST", "DEF"} =>
           starters[n].slot = "D/ST" /\ starters[n].pos = "D/ST"

\* the defence given as DEF fills the D/ST slot, the one given as DST is benched
C15_Witness ==
  /\ Returned /\ Feasible(pred_df)
  /\ \E n \in 1..Len(starters) :
       At(pred_df, starters[n].idx).pos = "DEF" /\ starters[n].slot = "D/ST"
  /\ \E n \in 1..Len(bench) : bench[n].pos = "DST"

\* C16: normalizing a normalized position code changes nothing: the codes of
\* the normalized table are fixed points, and normalizing twice equals
\* normalizing once for every code of the input, recognized or not.
C16_NormalizationIdempotent ==
  /\ \A n \in 1..Len(df) : replace_pos(df[n].pos) = df[n].pos
  /\ \A r \in Range(pred_df) :
       replace_pos(replace_pos(r.pos)) = replace_pos(r.pos)
  /\ \A c \in {"QB", "RB", "WR", "TE", "K", "D/ST"} : replace_pos(c) = c

\* the table was normalized and holds synonyms as well as unrecognized codes
C16_Witness ==
  /\ pc = "normalized"
  /\ \E n \in 1..Len(df) : pred_df[n].pos = "DEF" /\ df[n].pos = "D/ST"
  /\ \E n \in 1..Len(df) : pred_df[n].pos = "DST" /\ df[n].pos = "D/ST"
  /\ \E n \in 1..Len(df) : df[n].pos = "qb"

\* C17: a candidate without projected_points, the value missing or the whole
\* column absent, is solved with 0: the call on a feasible table returns, and
\* such a starter is reported with pred_points 0.
C17_MissingPointsDefault ==
  (Ended /\ Feasible(pred_df) /\ "uncert" \in Columns(pred_df)) =>
    /\ Returned
    /\ \A n \in 1..Len(starters) :
         LET r == At(pred_df, starters[n].idx)
         IN ("pred_points" \notin DOMAIN r \/ r.pred_points = <<>>) =>
              starters[n].pred_points = <<0>>

\* C18: a candidate whose uncertainty is missing is solved with 3: it is
\* reported with uncert 3, no benched candidate eligible for its slot scores
\* more than its points less 0.45, and two candidates rank differently by
\* score than by points only if their points differ by less than 0.15 times
\* the difference of their uncertainties.
C18_MissingUncertDefault ==
  /\ Returned =>
       \A n \in 1..Len(starters) :
         At(pred_df, starters[n].idx).uncert = <<>> =>
           /\ starters[n].uncert = <<3>>
           /\ Feasible(pred_df) =>
                \A b \in Validated(pred_df) :
                  (b.idx \notin StartedIdx /\ starters[n].slot \in Eligible(b)) =>
                    Score(b) <= 100 * starters[n].pred_points[1] - 45
  /\ Pruned =>
       \A a, b \in Range(df) :
         (adj(a) > adj(b) /\ a.pred_points[1] < b.pred_points[1]) =>
           100 * (b.pred_points[1] - a.pred_points[1])
             < 15 * (b.uncert[1] - a.uncert[1])

\* the receiver without an uncertainty starts, and the quarterback with fewer
\* points starts ahead of the one with more
C18_Witness ==
  /\ Returned /\ Feasible(pred_df)
  /\ \E n \in 1..Len(starters) : At(pred_df, starters[n].idx).uncert = <<>>
  /\ \E n \in 1..Len(starters), m \in 1..Len(bench) :
       /\ starters[n].slot = "QB" /\ bench[m].pos = "QB"
       /\ bench[m].pred_points[1] > starters[n].pred_points[1]

\* C19: a position code that differs from a canonical one by case or
\* whitespace has an empty eligibility set, and a candidate carrying it is
\* pruned and never starts.
C19_MiswrittenNotTolerated ==
  /\ \A c \in Miswritten : _eligible_slots(replace_pos(c)) = {}
  /\ Pruned =>
       \A r \in Range(pred_df) : r.pos \in Miswritten =>
         r.idx \notin DOMAIN elig_map /\ r.idx \notin Index(df)
  /\ Returned =>
       \A r \in Range(pred_df) : r.pos \in Miswritten => r.idx \notin StartedIdx

\* a lineup was returned while the candidate written qb, with more points
\* than either quarterback, did not start
C19_Witness ==
  /\ Returned /\ Feasible(pred_df)
  /\ \E r \in Range(pred_df) :
       /\ r.pos = "qb" /\ r.idx \notin StartedIdx
       /\ \A n \in 1..Len(starters) : r.pred_points[1] > starters[n].pred_points[1]

\* C20: starters come in the slot presentation order, and two starters with
\* the same slot label by descending projected_points.
C20_StartersOrder ==
  Returned =>
    \A m, n \in 1..Len(starters) : m < n =>
      /\ Rank(starters[m].slot) <= Rank(starters[n].slot)
      /\ starters[m].slot = starters[n].slot =>
           starters[m].pred_points[1] >= starters[n].pred_points[1]

\* nine starters were returned, the two in the RB slots with different points
C20_Witness ==
  /\ Returned /\ Len(starters) = Len(LineupSlots)
  /\ \E m, n \in 1..Len(starters) :
       /\ m < n /\ starters[m].slot = "RB" /\ starters[n].slot = "RB"
       /\ starters[m].pred_points[1] > starters[n].pred_points[1]

(***************************************************************************)
(* Claims C21 to C28.                                                      *)
(***************************************************************************)
\* projected_points of a row, a missing value counted as the default 0
PointsOrDefault(r) == IF r.pred_points = <<>> THEN 0 ELSE r.pred_points[1]

\* uncertainty of a row, a missing value counted as the default 3
UncertOrDefault(r) == IF r.uncert = <<>> THEN 3 ELSE r.uncert[1]

\* C21: for every two consecutive bench entries the earlier one's
\* projected_points, a missing value counted as 0, is at least the later one's.
C21_BenchDescending ==
  Returned =>
    \A n \in 1..(Len(bench) - 1) :
      PointsOrDefault(bench[n]) >= PointsOrDefault(bench[n + 1])

\* C22: every starter's slot label is the slot it holds in the assignment, a
\* category of the slot table and not its position, which it keeps; no bench
\* entry has a slot label.
C22_SlotLabels ==
  Returned =>
    /\ \A n \in 1..Len(starters) :
         /\ starters[n].slot \in DOMAIN SlotTable
         /\ <<starters[n].idx, starters[n].slot>> \in ones
         /\ starters[n].pos = Normalized(At(pred_df, starters[n].idx).pos)
    /\ Cardinality(ones) = Len(starters)
    /\ \A n \in 1..Len(bench) : "slot" \notin DOMAIN bench[n]

\* a running back starts in FLEX labelled FLEX with position RB, next to
\* running backs labelled RB, and somebody is benched
C22_Witness ==
  /\ Returned /\ Feasible(pred_df)
  /\ \E n \in 1..Len(starters) : starters[n].slot = "FLEX" /\ starters[n].pos = "RB"
  /\ \E n \in 1..Len(starters) : starters[n].slot = "RB" /\ starters[n].pos = "RB"
  /\ Len(bench) > 0

\* slot tables and coefficients, in hundredths, a caller may want to supply
SuppliedTables == { SlotTable, [s \in {"QB", "RB", "FLEX"} |-> 1] }

SuppliedLambdas == {15, 0, 50}

TotalWith(A, t, lam) ==
  SumOver(A, [k \in A |->
    100 * PointsOrDefault(At(t, k[1])) - lam * UncertOrDefault(At(t, k[1]))])

\* C23: whatever slot table the caller supplies, the returned lineup fills
\* exactly that table, and whatever lambda is supplied, no legal assignment
\* has a greater total under that lambda.
C23_ExplicitInputs ==
  (Returned /\ Feasible(pred_df)) =>
    /\ \A T \in SuppliedTables : \A s \in DOMAIN SlotTable :
         Cardinality(StartersWith(s)) = (IF s \in DOMAIN T THEN T[s] ELSE 0)
    /\ \A lam \in SuppliedLambdas : \A B \in LegalAssignments(pred_df) :
         TotalWith(B, pred_df, lam)
           <= TotalWith({ <<starters[n].idx, starters[n].slot>> : n \in 1..Len(starters) },
                        pred_df, lam)

\* C24: no step of a call, whether it ends in a result or in an error,
\* changes the caller's table.
C24_InputUntouched == [][pred_df' = pred_df]_vars

\* a call returned after its copy of the table was normalized and pruned, and
\* another call failed after its copy was normalized
C24_Witness ==
  \/ /\ Returned /\ Len(df) < Len(pred_df)
     /\ \E n \in 1..Len(starters) :
          At(pred_df, starters[n].idx).pred_points = NaN
            /\ starters[n].pred_points = <<0>>
  \/ /\ pc = "raised" /\ error = KeyError("slot")
     /\ \E n \in 1..Len(df) : At(pred_df, df[n].idx) # df[n]

\* the eligibility table with DST and DEF resolved like D/ST
EligibilityWithSynonyms(pos) ==
  IF pos \in {"DST", "DEF"} THEN {"D/ST"} ELSE EligibilitySet(pos)

\* position codes the resolver is tried on
PositionCodes ==
  {"QB", "RB", "WR", "TE", "K", "D/ST", "DST", "DEF", "FLEX", ""} \cup Miswritten

\* C26 (as stated): _eligible_slots gives the set of the eligibility table for
\* the six canonical codes and the empty set for every other value, and maps
\* exactly RB, WR and TE to FLEX.
C26_LookupAsStated ==
  /\ \A r \in Range(pred_df) : _eligible_slots(r.pos) = EligibilitySet(r.pos)
  /\ { c \in PositionCodes : "FLEX" \in _eligible_slots(c) } = {"RB", "WR", "TE"}

\* C26 (amended): _eligible_slots gives the set of the eligibility table for
\* the six canonical codes, {D/ST} also for DST and DEF, and the empty set for
\* every other value; it maps exactly FLEX_ELIGIBLE = {RB, WR, TE} to FLEX.
C26_ResolverLookup ==
  /\ \A c \in PositionCodes : _eligible_slots(c) = EligibilityWithSynonyms(c)
  /\ \A r \in Range(pred_df) : _eligible_slots(r.pos) = EligibilityWithSynonyms(r.pos)
  /\ { c \in PositionCodes : "FLEX" \in _eligible_slots(c) } = {"RB", "WR", "TE"}
  /\ FLEX_ELIGIBLE = {"RB", "WR", "TE"}
  /\ Pruned =>
       \A r \in Range(pred_df) :
         (IF r.idx \in DOMAIN elig_map THEN elig_map[r.idx] ELSE {})
           = EligibilityWithSynonyms(r.pos)

\* eligibility was resolved for a table holding both synonyms, an empty and a
\* miswritten code beside canonical ones
C26_Witness ==
  /\ pc = "pruned"
  /\ \A c \in {"DST", "DEF", "", "qb", "RB", "K"} :
       \E r \in Range(pred_df) : r.pos = c
  /\ \E i \in DOMAIN elig_map : elig_map[i] = {"RB", "FLEX"}

\* C27: in the lineup returned for a feasible table no benched candidate has
\* a strictly greater risk-adjusted score than a starter holding a slot the
\* benched candidate is eligible for.
C27_NoImprovingSwap ==
  (Returned /\ Feasible(pred_df)) =>
    \A m \in 1..Len(bench), n \in 1..Len(starters) :
      starters[n].slot \in Eligible(bench[m]) =>
        Score(bench[m]) <= Score(At(pred_df, starters[n].idx))

\* C27 with its example: no improving swap exists in a returned lineup, and
\* for the candidates A, B, C, D of SmallPool the call returns A in QB, B in
\* RB and D in FLEX with C alone on the bench.
C27_SwapAndExample ==
  /\ C27_NoImprovingSwap
  /\ (Ended /\ pred_df = SmallPool) =>
       /\ Returned
       /\ { <<s.player_name, s.slot>> : s \in Range(starters) }
            = { <<"A", "QB">>, <<"B", "RB">>, <<"D", "FLEX">> }
       /\ { b.player_name : b \in Range(bench) } = {"C"}

\* the call on the four candidates ended
C27_ExampleEnded == Ended /\ pred_df = SmallPool

\* a receiver holds FLEX while a running back with a lower score is benched,
\* and a benched quarterback has more points but a lower score than the starter
C27_Witness ==
  /\ Returned /\ Feasible(pred_df)
  /\ \E m \in 1..Len(bench), n \in 1..Len(starters) :
       /\ starters[n].slot = "FLEX" /\ starters[n].pos = "WR" /\ bench[m].pos = "RB"
       /\ Score(bench[m]) < Score(At(pred_df, starters[n].idx))
  /\ \E m \in 1..Len(bench), n \in 1..Len(starters) :
       /\ starters[n].slot = "QB" /\ bench[m].pos = "QB"
       /\ PointsOrDefault(bench[m]) > PointsOrDefault(starters[n])
       /\ Score(bench[m]) < Score(At(pred_df, starters[n].idx))

\* C28: a benched candidate is returned with the values it was solved with,
\* position DST or DEF as D/ST, missing projected_points as 0, missing
\* uncertainty as 3, and the bench is ordered on those projected_points.
C28_BenchNormalized ==
  Returned =>
    /\ \A n \in 1..Len(bench) :
         LET r == At(pred_df, bench[n].idx)
         IN /\ bench[n].pos = Normalized(r.pos)
            /\ bench[n].pred_points = <<PointsOrDefault(r)>>
            /\ bench[n].uncert = <<UncertOrDefault(r)>>
    /\ \A n \in 1..(Len(bench) - 1) :
         PointsOrDefault(bench[n]) >= PointsOrDefault(bench[n + 1])

\* C25: every step of the first call is a step the call can take on its own
\* table alone, whatever the other call has done, and no step of one call
\* changes anything of the other; so a call ends in a result it can end in
\* when it runs alone.
C25_CallsIndependent ==
  [][ /\ other' # other => ThisCall' = ThisCall
      /\ ThisCall' # ThisCall =>
           ThisCall' \in CallSteps(ThisCall) /\ other' = other ]_vars

\* both calls returned, each its own lineup for its own table
C25_Witness ==
  /\ Returned /\ other.pc = "returned"
  /\ other.pred_df # pred_df
  /\ Index(other.starters) # Index(starters)
  /\ Index(bench) \cap Index(other.bench) # {}

(***************************************************************************)
(* Claim C29: _fetch_matchups_http.                                        *)
(***************************************************************************)
OfficialUrl ==
  "https://fantasy.espn.com/apis/v3/games/ffl/leagues?view=mMatchupScore"

FallbackUrl ==
  "https://lm-api-reads.fantasy.espn.com/apis/v3/games/ffl/leagues?view=mMatchupScore"

\* the places of requests at which the loop requested target at line 149
RequestsFor(target) ==
  { n \in 1..Len(requests) : requests[n] = Request(target, 149) }

\* the places of requests at which a redirect's location was requested
Redirects == { n \in 1..Len(requests) : requests[n].line = 154 }

\* the url of the loop whose attempt the request at place n is part of
AttemptOf(n) ==
  IF n \in Redirects THEN requests[n - 1].target ELSE requests[n].target

\* C29: the loop requests the official URL first and the fallback only after
\* the official attempt failed; each is requested once by the loop and
\* followed by at most one request for a redirect's location; a returned
\* value is the JSON of the latest request, made while no later URL was
\* tried; a raised error is that of the last URL tried, the fallback's when
\* both were tried, and never the RuntimeError of line 174.
C29_FetchOrder ==
  /\ Len(requests) > 0 => requests[1] = Request(OfficialUrl, 149)
  /\ Cardinality(RequestsFor(OfficialUrl)) <= 1
  /\ Cardinality(RequestsFor(FallbackUrl)) <= 1
  /\ \A n \in 1..Len(requests) :
       \/ n \in RequestsFor(OfficialUrl) \cup RequestsFor(FallbackUrl)
       \/ n \in Redirects /\ n > 1 /\ (n - 1) \notin Redirects
  /\ RequestsFor(FallbackUrl) # {} =>
       /\ RequestsFor(OfficialUrl) # {}
       /\ last_err # None
       /\ fpc \in {"redirect", "check", "returned"} =>
            last_err.url = OfficialUrl /\ url_i = 2
  /\ (url_i = 2 /\ fpc = "get") =>
       /\ last_err # None /\ last_err.url = OfficialUrl
       /\ RequestsFor(FallbackUrl) = {}
  /\ fpc = "returned" =>
       /\ fetched = Json(requests[Len(requests)].target)
       /\ resp.status < 400
       /\ url_i = 1 => last_err = None
  /\ fpc = "raised" =>
       /\ fetched.kind # "RuntimeError"
       /\ fetched.url = AttemptOf(Len(requests))
       /\ RequestsFor(FallbackUrl) # {} => fetched.url = FallbackUrl
       /\ fetched.kind # "ValueError" =>
            fetched = last_err /\ RequestsFor(FallbackUrl) # {}

\* the official URL redirected, the location was requested and failed, and
\* the fallback's JSON was returned
C29_Witness ==
  /\ fpc = "returned"
  /\ Len(requests) = 3
  /\ requests[2].line = 154
  /\ requests[3] = Request(FallbackUrl, 149)
  /\ fetched = Json(FallbackUrl)

(***************************************************************************)
(* Claim C30: scrape_season.                                               *)
(***************************************************************************)
\* the messages of the log about week w, in order
MessagesOf(w) ==
  LET about == SelectSeq(log, LAMBDA e : e.week = w)
  IN [n \in 1..Len(about) |-> about[n].msg]

\* the messages printed when the fetch of a week fails
FetchFailures ==
  {"HTTP error", "No valid stats table", "Unexpected error: ConnectionError"}

\* the season file was written by this run
SeasonWritten ==
  files[out_season].kind = "table" /\ files[out_season].from = "concat"

\* the week in turn, when the loop is at one
Current == weeks[week_i]

AtWeek == spc = "loop" /\ week_i <= MaxWeeks

\* this step ended the week in turn with a failed fetch
FetchFailed ==
  /\ AtWeek /\ Len(log') = Len(log) + 2
  /\ log'[Len(log')].msg \in FetchFailures

\* C30: the weeks are taken in order, each exactly once, and the loop ends
\* only after the last; a week whose file is there and readable is loaded
\* with no fetch and no write; a week whose fetch fails is left out, its file
\* untouched, and the loop goes on with the next week; the season file is
\* written, with all frames, exactly when some week gave a frame, and
\* otherwise the empty table is returned.
C30_WeeksIsolated ==
  /\ [](/\ \A n \in 1..MaxWeeks :
            MessagesOf(n) # <<>> <=> n < week_i
        /\ \A m, n \in 1..Len(log) : m < n /\ log[n].week # 0 =>
            log[m].week # 0 /\ log[m].week <= log[n].week
        /\ \A n \in 1..Len(frames) : \A m \in 1..(n - 1) :
            frames[m].weeks[1] < frames[n].weeks[1]
        /\ spc = "done" =>
            /\ week_i = MaxWeeks + 1
            /\ IF frames = <<>>
               THEN /\ season_df = Table(<<>>, "empty", 0)
                    /\ ~SeasonWritten
               ELSE /\ season_df.weeks = [n \in 1..Len(frames) |-> frames[n].weeks[1]]
                    /\ files[out_season] = season_df
        /\ spc # "done" => ~SeasonWritten)
  /\ [][ /\ (AtWeek /\ files[out_week(Current)].kind = "table") =>
             /\ log' = Append(log, [week |-> Current, msg |-> "[cache] loaded"])
             /\ frames' = Append(frames, files[out_week(Current)])
             /\ files' = files
             /\ week_i' = week_i + 1 /\ spc' = "loop"
         /\ FetchFailed =>
             /\ frames' = frames /\ files' = files
             /\ week_i' = week_i + 1 /\ spc' = "loop" ]_vars

\* the first week came from its file, the fetch of the second failed, the
\* third was fetched and written, and the season file holds weeks 1 and 3
C30_Witness ==
  /\ spc = "done"
  /\ MessagesOf(1) = <<"[cache] loaded">>
  /\ MessagesOf(2) = <<"Fetching", "HTTP error">>
  /\ MessagesOf(3) = <<"Fetching">>
  /\ files[out_week(2)] = [kind |-> "absent"]
  /\ files[out_season].weeks = <<1, 3>>
====
